---- MODULE Spec2Model ----
(***************************************************************************)
(* Verlet physics element, ray/boundary intersection, trajectory preview,  *)
(* bullets and game loop of wethegit/engineDemo.                           *)
(*                                                                         *)
(* Numbers.  The source computes with real numbers (JS doubles); the model *)
(* computes exactly, with integers and exact fractions.  Time is counted   *)
(* in ticks of 1/60 s (the preview's timeStep) and lengths in units of     *)
(* 1/108 px.  In these units the source's force factor 50000 (px/s^2 per   *)
(* second of step) is 50000 * 108 / 60^3 = 25, so one sub-step of gravity  *)
(* 1 displaces a body by 25 units (= 50000/60^3 px).                       *)
(*                                                                         *)
(* Objects.  A Vec2 is a mutable object in the source.  The only sharing   *)
(* that changes behaviour is an Element whose position and oldPosition are *)
(* one and the same Vec2; the field "shared" of an element records it.     *)
(***************************************************************************)
EXTENDS Integers, Sequences, FiniteSets, TLC

(***************************************************************************)
(* Bounds of the model                                                     *)
(***************************************************************************)
MaxCoord == 1       \* element coordinates at construction: 0..MaxCoord
MaxDelta == 2       \* integrate deltas: 1..MaxDelta
MaxForces == 2      \* applyForce calls per element
MaxElSteps == 2     \* integrate calls per element
FieldW == 200       \* engine.dims.x, in units
FieldAir == 400     \* engine.dims.y minus the default ground height, in units
BulletRadius == 5    \* the radius prop of the bullets, in units
MaxBulletSteps == 4  \* update calls per bullet
MaxRequests == 3     \* pending animation frame requests
MaxBullets == 2      \* bullets fired into the scene

(***************************************************************************)
(* Units and program constants                                             *)
(***************************************************************************)
UnitsPerPx == 108

TimeStep == 1                   \* const timeStep = 1 / 60 (one tick)

MaxIterations == 200            \* for (let i = 0; i < 200; i++)

SampleEvery == 3                \* if (i % 3 == 0)

\* 50000 (px/s^2 per second of step), in units per tick^2 per tick
ForceScale == (50000 * UnitsPerPx) \div (60 * 60 * 60)

(***************************************************************************)
(* Vec2 (wtc-math), as far as the sources use it                           *)
(***************************************************************************)
Vec2(x, y) == [x |-> x, y |-> y]

Zero == Vec2(0, 0)

VAdd(a, b) == Vec2(a.x + b.x, a.y + b.y)

VSub(a, b) == Vec2(a.x - b.x, a.y - b.y)

VScale(a, s) == Vec2(a.x * s, a.y * s)

Abs(n) == IF n < 0 THEN -n ELSE n

(***************************************************************************)
(* Physics/Element                                                         *)
(***************************************************************************)
\* new Element({position, oldPosition}); sameObject: the caller passes one
\* Vec2 as both.  oldPosition || position.clone(); acceleration defaults to
\* a fresh zero vector.
NewElement(position, oldPosition, sameObject) ==
  [position |-> position,
   oldPosition |-> IF sameObject THEN position ELSE oldPosition,
   acceleration |-> Zero,
   shared |-> sameObject]

\* mutant of ApplyForce: the force replaces the accumulator
ApplyForceOverwrite(el, force) == [el EXCEPT !.acceleration = force]

ApplyForce(el, force) == [el EXCEPT !.acceleration = VAdd(@, force)]

\* mutant of Integrate: the accumulator is scaled but not reset
IntegrateKeepAcceleration(el, delta) ==
  LET tp == el.position
      velocity == VSub(el.position, el.oldPosition)
      moved == VAdd(VAdd(el.position, velocity),
                    VScale(el.acceleration, delta * delta))
      pos == IF el.shared THEN tp ELSE moved
      after == [position |-> pos, oldPosition |-> tp,
                acceleration |-> VScale(el.acceleration, delta * delta),
                shared |-> el.shared]
  IN [el |-> after,
      ret |-> [acceleration |-> VSub(pos, tp), position |-> pos,
               oldPosition |-> tp]]

\* integrate({delta}): el is the element after the call, ret the returned
\* object.  When position and oldPosition are one Vec2,
\* oldPosition.resetToVector(tp) also puts position back to tp.
Integrate(el, delta) ==
  LET tp == el.position
      velocity == VSub(el.position, el.oldPosition)
      moved == VAdd(VAdd(el.position, velocity),
                    VScale(el.acceleration, delta * delta))
      pos == IF el.shared THEN tp ELSE moved
      after == [position |-> pos, oldPosition |-> tp,
                acceleration |-> Zero, shared |-> el.shared]
  IN [el |-> after,
      ret |-> [acceleration |-> VSub(pos, tp), position |-> pos,
               oldPosition |-> tp]]

\* integrate has not been called
NoReturn == [acceleration |-> Zero, position |-> Zero, oldPosition |-> Zero]

\* physics.ray, the direction travelled in the last step (the getter is not
\* among the sources; Trajectory.ts:164 gives the expression it replaced)
Ray(el) == VSub(el.position, el.oldPosition)

(***************************************************************************)
(* Helpers/Intersections                                                   *)
(***************************************************************************)
RECURSIVE GCD(_, _)
GCD(a, b) == IF b = 0 THEN a ELSE GCD(b, a % b)

\* a number: the exact value w + n/d with 0 <= n < d in lowest terms, or
\* undefined
Num(w, n, d) ==
  LET g == GCD(n, d)
  IN [def |-> TRUE, w |-> w, n |-> n \div g, d |-> d \div g]

Whole(w) == [def |-> TRUE, w |-> w, n |-> 0, d |-> 1]

NoNumber == [def |-> FALSE, w |-> 0, n |-> 0, d |-> 1]

\* mutant of Quotient: the fraction is dropped
QuotientTruncated(base, num, den) == Whole(base + (num \div den))

\* base + num/den for den > 0
Quotient(base, num, den) == Num(base + (num \div den), num % den, den)

\* entries of a point list: a Vec2, null or undefined
Point(x, y) == [k |-> "vec", x |-> x, y |-> y]

Pt(v) == Point(Whole(v.x), Whole(v.y))

NullEntry == [k |-> "null", x |-> NoNumber, y |-> NoNumber]

UndefinedEntry == [k |-> "undefined", x |-> NoNumber, y |-> NoNumber]

\* mutant of NearZero: a slow ray counts as parallel
NearZeroWide(c) == Abs(c) <= 1

\* Math.abs(c) < 0.000001 (px): coordinates are whole numbers of units of
\* 1/108 px, so the only such c is 0
NearZero(c) == Abs(c) = 0

Sign(n) == IF n < 0 THEN 0 - 1 ELSE 1

\* mutant of RayBoundaryIntersection: t > 0 in place of t >= 0
RayBoundaryIntersectionStrict(rayOrigin, rayDirection, boundaryValue, boundaryType) ==
  IF boundaryType = "vertical"
  THEN IF NearZero(rayDirection.x)
          \/ (boundaryValue - rayOrigin.x) * Sign(rayDirection.x) <= 0
       THEN [intersects |-> FALSE, point |-> UndefinedEntry, t |-> NoNumber]
       ELSE [intersects |-> TRUE,
             point |-> Point(Whole(boundaryValue),
                             Quotient(rayOrigin.y,
                                      rayDirection.y
                                        * (boundaryValue - rayOrigin.x)
                                        * Sign(rayDirection.x),
                                      Abs(rayDirection.x))),
             t |-> Quotient(0, (boundaryValue - rayOrigin.x)
                                 * Sign(rayDirection.x),
                            Abs(rayDirection.x))]
  ELSE IF NearZero(rayDirection.y)
          \/ (boundaryValue - rayOrigin.y) * Sign(rayDirection.y) <= 0
       THEN [intersects |-> FALSE, point |-> UndefinedEntry, t |-> NoNumber]
       ELSE [intersects |-> TRUE,
             point |-> Point(Quotient(rayOrigin.x,
                                      rayDirection.x
                                        * (boundaryValue - rayOrigin.y)
                                        * Sign(rayDirection.y),
                                      Abs(rayDirection.y)),
                             Whole(boundaryValue)),
             t |-> Quotient(0, (boundaryValue - rayOrigin.y)
                                 * Sign(rayDirection.y),
                            Abs(rayDirection.y))]

\* t = (boundaryValue - origin) / direction is tn/td with td > 0;
\* point = origin + direction * t on the other axis
RayBoundaryIntersection(rayOrigin, rayDirection, boundaryValue, boundaryType) ==
  IF boundaryType = "vertical"
  THEN IF NearZero(rayDirection.x)
       THEN [intersects |-> FALSE, point |-> UndefinedEntry, t |-> NoNumber]
       ELSE LET tn == (boundaryValue - rayOrigin.x) * Sign(rayDirection.x)
                td == Abs(rayDirection.x)
            IN IF tn >= 0
               THEN [intersects |-> TRUE,
                     point |-> Point(Whole(boundaryValue),
                                     Quotient(rayOrigin.y,
                                              rayDirection.y * tn, td)),
                     t |-> Quotient(0, tn, td)]
               ELSE [intersects |-> FALSE, point |-> UndefinedEntry,
                     t |-> NoNumber]
  ELSE IF NearZero(rayDirection.y)
       THEN [intersects |-> FALSE, point |-> UndefinedEntry, t |-> NoNumber]
       ELSE LET tn == (boundaryValue - rayOrigin.y) * Sign(rayDirection.y)
                td == Abs(rayDirection.y)
            IN IF tn >= 0
               THEN [intersects |-> TRUE,
                     point |-> Point(Quotient(rayOrigin.x,
                                              rayDirection.x * tn, td),
                                     Whole(boundaryValue)),
                     t |-> Quotient(0, tn, td)]
               ELSE [intersects |-> FALSE, point |-> UndefinedEntry,
                     t |-> NoNumber]

\* t1 = n1/den and t2 = n2/den with den = |dot| > 0: the test of
\* rayLineIntersection on them
\* mutant of RayLineHit: t2 <= 1 is not tested
RayLineHitUnbounded(rayOrigin, rayDirection, n1, n2, den) ==
  IF n1 >= 0 /\ n2 >= 0
  THEN [intersects |-> TRUE,
        point |-> Point(Quotient(rayOrigin.x, rayDirection.x * n1, den),
                        Quotient(rayOrigin.y, rayDirection.y * n1, den)),
        t |-> Quotient(0, n1, den)]
  ELSE [intersects |-> FALSE, point |-> UndefinedEntry, t |-> NoNumber]

\* what rayLineIntersection returns once t1 = n1/den and t2 = n2/den are
\* known
RayLineHit(rayOrigin, rayDirection, n1, n2, den) ==
  IF n1 >= 0 /\ n2 >= 0 /\ n2 <= den
  THEN [intersects |-> TRUE,
        point |-> Point(Quotient(rayOrigin.x, rayDirection.x * n1, den),
                        Quotient(rayOrigin.y, rayDirection.y * n1, den)),
        t |-> Quotient(0, n1, den)]
  ELSE [intersects |-> FALSE, point |-> UndefinedEntry, t |-> NoNumber]

\* dot = v2 . v3 for v2 = lineEnd - lineStart and v3 the perpendicular
\* (-rayDirection.y, rayDirection.x) of the ray
SegmentDotPerp(rayDirection, lineStart, lineEnd) ==
  (lineEnd.x - lineStart.x) * (0 - rayDirection.y)
    + (lineEnd.y - lineStart.y) * rayDirection.x

\* the numerator v2.x * v1.y - v2.y * v1.x of t1, for v1 = rayOrigin -
\* lineStart
T1Numerator(rayOrigin, lineStart, lineEnd) ==
  (lineEnd.x - lineStart.x) * (rayOrigin.y - lineStart.y)
    - (lineEnd.y - lineStart.y) * (rayOrigin.x - lineStart.x)

\* the numerator v1.x * v3.x + v1.y * v3.y of t2
T2Numerator(rayOrigin, rayDirection, lineStart) ==
  (rayOrigin.x - lineStart.x) * (0 - rayDirection.y)
    + (rayOrigin.y - lineStart.y) * rayDirection.x

\* rayLineIntersection(rayOrigin, rayDirection, lineStart, lineEnd); the
\* divisions by dot are made by |dot| with the sign moved to the numerators
RayLineIntersection(rayOrigin, rayDirection, lineStart, lineEnd) ==
  IF NearZero(SegmentDotPerp(rayDirection, lineStart, lineEnd))
  THEN [intersects |-> FALSE, point |-> UndefinedEntry, t |-> NoNumber]
  ELSE RayLineHit(rayOrigin, rayDirection,
                  T1Numerator(rayOrigin, lineStart, lineEnd)
                    * Sign(SegmentDotPerp(rayDirection, lineStart, lineEnd)),
                  T2Numerator(rayOrigin, rayDirection, lineStart)
                    * Sign(SegmentDotPerp(rayDirection, lineStart, lineEnd)),
                  Abs(SegmentDotPerp(rayDirection, lineStart, lineEnd)))

(***************************************************************************)
(* config: params                                                          *)
(***************************************************************************)
DefaultParams ==
  [wind |-> Zero, gravity |-> 1, frictionPerMille |-> 975,
   groundHeight |-> 100 * UnitsPerPx]

\* engine.dims
Dims == Vec2(FieldW, FieldAir + DefaultParams.groundHeight)

(***************************************************************************)
(* GameObjects/Trajectory                                                  *)
(***************************************************************************)
\* mutant of WrapLeft: oldPosition is left where the step had put it
WrapLeftKeepOld(el, acceleration, dims) ==
  [el EXCEPT !.position = Vec2(dims.x, el.position.y),
             !.oldPosition = IF el.shared THEN Vec2(dims.x, el.position.y)
                             ELSE @]

\* left wrap: position.x = engine.dims.x;
\* oldPosition = position.subtractNew(acceleration), a new Vec2
WrapLeft(el, acceleration, dims) ==
  LET p == Vec2(dims.x, el.position.y)
  IN [position |-> p, oldPosition |-> VSub(p, acceleration),
      acceleration |-> el.acceleration, shared |-> FALSE]

\* mutant of WrapRight: the position stays beyond the right edge
WrapRightStays(el, acceleration, dims) ==
  LET p == el.position
      o == VSub(p, acceleration)
  IN [position |-> IF el.shared THEN o ELSE p, oldPosition |-> o,
      acceleration |-> el.acceleration, shared |-> el.shared]

\* right wrap: position.x = 0;
\* oldPosition.resetToVector(position.subtractNew(acceleration)), in place
WrapRight(el, acceleration, dims) ==
  LET p == Vec2(0, el.position.y)
      o == VSub(p, acceleration)
  IN [position |-> IF el.shared THEN o ELSE p, oldPosition |-> o,
      acceleration |-> el.acceleration, shared |-> el.shared]

\* mutant of ForceVectors: params.wind.scale(...), which scales the wind
\* vector of params itself and hands it on
ForceVectorsInPlace(P, step) ==
  [gravity |-> [fresh |-> TRUE, v |-> Vec2(0, P.gravity * ForceScale * step)],
   wind |-> [fresh |-> FALSE, v |-> VScale(P.wind, ForceScale * step)],
   params |-> [P EXCEPT !.wind = VScale(@, ForceScale * step)]]

\* the two vectors handed to applyForce, whether each is a new Vec2, and
\* params after they were built: new Vec2(0, ...) and
\* params.wind.scaleNew(...) both make a new vector and leave params
ForceVectors(P, step) ==
  [gravity |-> [fresh |-> TRUE, v |-> Vec2(0, P.gravity * ForceScale * step)],
   wind |-> [fresh |-> TRUE, v |-> VScale(P.wind, ForceScale * step)],
   params |-> P]

\* mutant of ApplyForces: the gravity force is missing
ApplyForcesWindOnly(el, P, step) ==
  ApplyForce(el, VScale(P.wind, ForceScale * step))

\* applyForce(new Vec2(0, params.gravity * 50000 * step));
\* applyForce(params.wind.scaleNew(50000 * step))
ApplyForces(el, P, step) ==
  ApplyForce(ApplyForce(el, Vec2(0, P.gravity * ForceScale * step)),
             VScale(P.wind, ForceScale * step))

\* mutant of Sample: every sub-step is sampled
SampleEveryStep(i, el) == <<Pt(el.position)>>

\* if (i % 3 == 0) this.points.push(this.physics.position.clone())
Sample(i, el) == IF i % SampleEvery = 0 THEN <<Pt(el.position)>> ELSE <<>>

\* what one iteration of the loop of update leaves: el the element after
\* it, pushed the entries it appends to points, stop whether it breaks out
\* of the loop, rec a record of the iteration (r is what integrate gave,
\* hit what rayBoundaryIntersection gave, tail the entries pushed after
\* the sample)
StepResult(i, el, r, sample, kind, hit, after, tail, stop) ==
  [el |-> after, pushed |-> sample \o tail, stop |-> stop,
   rec |-> [i |-> i, pre |-> el, post |-> r.el,
            acceleration |-> r.ret.acceleration, kind |-> kind, hit |-> hit,
            after |-> after, sample |-> sample, tail |-> tail]]

\* no call of rayBoundaryIntersection in this iteration
NoHit == [intersects |-> FALSE, point |-> UndefinedEntry, t |-> NoNumber]

\* mutant of Wrapped: the loop breaks after a wrap
WrappedBreaks(i, el, r, sample, kind, hit, w) ==
  StepResult(i, el, r, sample, kind, hit, w,
             <<hit.point, NullEntry, Pt(w.position)>>, TRUE)

\* a wrap: push(point); push(null); the element w moved to the opposite
\* edge; push(position.clone())
Wrapped(i, el, r, sample, kind, hit, w) ==
  StepResult(i, el, r, sample, kind, hit, w,
             <<hit.point, NullEntry, Pt(w.position)>>, FALSE)

\* mutant of AfterIntegrate: the edges are tested before the ground
AfterIntegrateEdgesFirst(i, el, r, sample, P, dims) ==
  IF r.el.position.x < 0
  THEN Wrapped(i, el, r, sample, "left",
               RayBoundaryIntersection(r.el.oldPosition, Ray(r.el),
                                       0, "vertical"),
               WrapLeft(r.el, r.ret.acceleration, dims))
  ELSE IF r.el.position.x > dims.x
  THEN Wrapped(i, el, r, sample, "right",
               RayBoundaryIntersection(r.el.oldPosition, Ray(r.el),
                                       dims.x, "vertical"),
               WrapRight(r.el, r.ret.acceleration, dims))
  ELSE IF r.el.position.y > dims.y - P.groundHeight
  THEN StepResult(i, el, r, sample, "ground", NoHit, r.el,
                  <<Pt(r.el.position)>>, TRUE)
  ELSE StepResult(i, el, r, sample, "none", NoHit, r.el, <<>>, FALSE)

\* the tests that follow integrate in the loop body: ground first, then the
\* left edge, else the right edge
AfterIntegrate(i, el, r, sample, P, dims) ==
  IF r.el.position.y > dims.y - P.groundHeight
  THEN StepResult(i, el, r, sample, "ground", NoHit, r.el,
                  <<Pt(r.el.position)>>, TRUE)
  ELSE IF r.el.position.x < 0
  THEN Wrapped(i, el, r, sample, "left",
               RayBoundaryIntersection(r.el.oldPosition, Ray(r.el),
                                       0, "vertical"),
               WrapLeft(r.el, r.ret.acceleration, dims))
  ELSE IF r.el.position.x > dims.x
  THEN Wrapped(i, el, r, sample, "right",
               RayBoundaryIntersection(r.el.oldPosition, Ray(r.el),
                                       dims.x, "vertical"),
               WrapRight(r.el, r.ret.acceleration, dims))
  ELSE StepResult(i, el, r, sample, "none", NoHit, r.el, <<>>, FALSE)

\* one iteration of the loop of update
SubStep(i, el, P, dims) ==
  AfterIntegrate(i, el, Integrate(ApplyForces(el, P, TimeStep), TimeStep),
                 Sample(i, el), P, dims)

\* the loop of update after some iterations: the next index i, the element,
\* points, the records of the iterations made (each with the length "at"
\* that points had when the iteration began), and whether it has ended
LoopStart(el) ==
  [i |-> 0, el |-> el, points |-> <<>>, log |-> <<>>, done |-> FALSE]

\* the loop state after the iteration whose result is s
Advance(ls, s) ==
  [i |-> ls.i + 1, el |-> s.el, points |-> ls.points \o s.pushed,
   log |-> Append(ls.log, [at |-> Len(ls.points)] @@ s.rec),
   done |-> s.stop]

\* one more iteration, unless i < 200 fails or a break has ended the loop
LoopStep(ls, P, dims) ==
  IF ls.done \/ ls.i >= MaxIterations
  THEN [ls EXCEPT !.done = TRUE]
  ELSE Advance(ls, SubStep(ls.i, ls.el, P, dims))

RECURSIVE Iterate(_, _, _, _), Continue(_, _, _, _)
\* n more iterations from the loop state ls, unless a break has ended the
\* loop
Continue(ls, n, P, dims) ==
  IF ls.done THEN ls ELSE Iterate(ls, n, P, dims)

\* n iterations: the first half, then the second half
Iterate(ls, n, P, dims) ==
  IF n = 0 THEN ls
  ELSE IF n = 1 THEN LoopStep(ls, P, dims)
  ELSE Continue(Iterate(ls, n \div 2, P, dims), n - n \div 2, P, dims)

\* points.length = 0 and the whole loop
Simulate(el, P, dims) == Iterate(LoopStart(el), MaxIterations, P, dims)

\* mutant of TrajectoryTrigger: a trigger that is already pending wins
TrajectoryTriggerKeepPending(t, startPos, velocity) ==
  IF t.needsUpdate /\ ~t.physics.shared
  THEN t
  ELSE [t EXCEPT !.physics = NewElement(startPos, VSub(startPos, velocity),
                                        FALSE),
                 !.needsUpdate = TRUE]

\* mutant of TrajectoryTrigger: oldPosition is ahead of startPos
TrajectoryTriggerAhead(t, startPos, velocity) ==
  [t EXCEPT !.physics = NewElement(startPos, VAdd(startPos, velocity), FALSE),
            !.needsUpdate = TRUE]

\* trigger(player, startPos, velocity) on the trajectory t
TrajectoryTrigger(t, startPos, velocity) ==
  [t EXCEPT !.physics = NewElement(startPos, VSub(startPos, velocity), FALSE),
            !.needsUpdate = TRUE]

\* the trajectory after the loop whose final state is r: needsUpdate =
\* false, needsRedraw = true
Resimulated(r) ==
  [t |-> [physics |-> r.el, points |-> r.points,
          needsUpdate |-> FALSE, needsRedraw |-> TRUE],
   ran |-> TRUE, log |-> r.log]

\* mutant of TrajectoryUpdate: the needsUpdate test is missing
TrajectoryUpdateAlways(t, deltaTime, P, dims) ==
  Resimulated(Simulate(t.physics, P, dims))

\* mutant of TrajectoryUpdate: points.length = 0 is missing
TrajectoryUpdateAppend(t, deltaTime, P, dims) ==
  IF ~t.needsUpdate
  THEN [t |-> t, ran |-> FALSE, log |-> <<>>]
  ELSE [Resimulated(Simulate(t.physics, P, dims))
          EXCEPT !.t.points = t.points \o @]

\* mutant of TrajectoryUpdate: the forces of the first sub-step are scaled
\* by deltaTime instead of timeStep
TrajectoryUpdateRealTime(t, deltaTime, P, dims) ==
  IF ~t.needsUpdate
  THEN [t |-> t, ran |-> FALSE, log |-> <<>>]
  ELSE Resimulated(Simulate(ApplyForces(t.physics, P, deltaTime - TimeStep),
                            P, dims))

\* update(engine, deltaTime) on the trajectory t: t after the call, ran
\* whether it resimulated, log the records of the iterations
TrajectoryUpdate(t, deltaTime, P, dims) ==
  IF ~t.needsUpdate
  THEN [t |-> t, ran |-> FALSE, log |-> <<>>]
  ELSE Resimulated(Simulate(t.physics, P, dims))

\* draw(): drawObject only when needsRedraw; drawObject returns early on an
\* empty list and throws on an undefined entry before it clears the flag
TrajectoryDraw(t) ==
  IF t.needsRedraw /\ t.points # <<>>
     /\ \A j \in 1..Len(t.points) : t.points[j].k # "undefined"
  THEN [t EXCEPT !.needsRedraw = FALSE]
  ELSE t

\* new Trajectory({position}): the element gets this.position as position
\* and as oldPosition; needsUpdate = true, points = [], needsRedraw = false
NewTrajectory(position) ==
  [physics |-> NewElement(position, position, TRUE), points |-> <<>>,
   needsUpdate |-> TRUE, needsRedraw |-> FALSE]

(***************************************************************************)
(* GameObjects/Bullet                                                      *)
(***************************************************************************)
\* mutant of NewBullet: oldPosition is taken from the position prop, not
\* from the shifted position
NewBulletOldUnshifted(position, velocity, radius) ==
  [physics |-> NewElement(VSub(position, Vec2(radius, radius)),
                          VSub(position, velocity), FALSE),
   radius |-> radius, isDestroyed |-> FALSE]

\* new Bullet({position, velocity, radius}): the GameObject position is
\* position.subtractScalarNew(radius), and the element gets that Vec2 as its
\* position and a new Vec2 as oldPosition, so bullet.position is
\* physics.position.  isDestroyed is not set by the constructor; a value
\* that was never set reads as not destroyed.
NewBullet(position, velocity, radius) ==
  [physics |-> NewElement(VSub(position, Vec2(radius, radius)),
                          VSub(VSub(position, Vec2(radius, radius)),
                               velocity),
                          FALSE),
   radius |-> radius, isDestroyed |-> FALSE]

\* the two tests of update on the integrated element el
BulletLeft(el, radius, P, dims) ==
  \/ el.position.y + radius > dims.y - P.groundHeight
  \/ el.position.x < 0
  \/ el.position.x > dims.x

\* mutant of BulletMoved: the test of the x position is missing
BulletMovedGroundOnly(b, el, P, dims) ==
  [b EXCEPT !.physics = el,
            !.isDestroyed = @ \/ (el.position.y + b.radius
                                    > dims.y - P.groundHeight)]

\* the bullet b with the element el that integrate left: each test that
\* holds sets isDestroyed, nothing clears it
BulletMoved(b, el, P, dims) ==
  [b EXCEPT !.physics = el,
            !.isDestroyed = @ \/ BulletLeft(el, b.radius, P, dims)]

\* update(engine, deltaTime) on the bullet b
BulletUpdate(b, deltaTime, P, dims) ==
  BulletMoved(b, Integrate(ApplyForces(b.physics, P, deltaTime),
                           deltaTime).el, P, dims)

(***************************************************************************)
(* Core/GameEngine                                                         *)
(***************************************************************************)
\* animationFrameId = null
NoFrame == 0

\* new GameEngine(...): gameObjects = [], #playing = false,
\* animationFrameId = null
NewGameEngine ==
  [playing |-> FALSE, animationFrameId |-> NoFrame, gameObjects |-> <<>>]

\* the id requestAnimationFrame returns: a positive number that no pending
\* request has and that is not the id handed out last (held)
FreshId(requests, held) ==
  CHOOSE n \in 1..(Cardinality(requests) + 2) :
    /\ n \notin requests \cup {held}
    /\ \A m \in 1..(n - 1) : m \in requests \cup {held}

\* engine.animationFrameId = requestAnimationFrame(engine.gameLoop): g the
\* engine, requests the ids of the pending requests
Requested(g, requests, id) ==
  [g |-> [g EXCEPT !.animationFrameId = id], requests |-> requests \cup {id}]

\* set playing(p)
SetPlaying(g, requests, p) ==
  IF g.animationFrameId = NoFrame /\ p
  THEN Requested([g EXCEPT !.playing = TRUE], requests,
                 FreshId(requests, g.animationFrameId))
  ELSE IF g.animationFrameId # NoFrame /\ ~p
  THEN [g |-> [g EXCEPT !.animationFrameId = NoFrame, !.playing = FALSE],
        requests |-> requests \ {g.animationFrameId}]
  ELSE [g |-> g, requests |-> requests]

\* engine.addGameObject(obj), which the sources call but do not define:
\* taken to push obj as addObject does
AddGameObject(g, obj) == [g EXCEPT !.gameObjects = Append(@, obj)]

\* obj.update(engine, deltaTime) for a bullet of the scene.  A destroyed
\* bullet is updated like any other; the model no longer follows its
\* position.
ObjectUpdate(b, deltaTime, P, dims) ==
  IF b.isDestroyed THEN b ELSE BulletUpdate(b, deltaTime, P, dims)

\* update(): gameObjects.forEach((obj) => obj.update(this, deltaTime))
EngineUpdate(g, deltaTime, P, dims) ==
  [g EXCEPT !.gameObjects =
              [j \in 1..Len(@) |-> ObjectUpdate(@[j], deltaTime, P, dims)]]

\* the objects main adds to the scene before the first frame; the model
\* follows their place in gameObjects, not their own state
SceneObjects ==
  <<[id |-> "background"], [id |-> "ground"], [id |-> "player"],
    [id |-> "trajectory"]>>

IsBullet(obj) == "isDestroyed" \in DOMAIN obj

\* mutant of ForEachLength: the length is read again before every visit
ForEachLengthLive(len, array) == Len(array)

\* the number of indices gameObjects.forEach visits: forEach reads the
\* length once, before the first call (len), so elements appended to the
\* array during the pass are not visited
ForEachLength(len, array) == len

VARIABLES
  e,        \* an Element driven directly through its interface
  eBase,    \* ghost: e as it was after construction or the last integrate
  held,     \* ghost: the forces applied to e since then, in call order
  eTwin,    \* ghost: eBase after the same forces in reverse order and the
            \*        same integrate call
  ePre,     \* ghost: e immediately before the last integrate call
  eOp,      \* ghost: the last call on e, and what the last integrate
            \*        call returned (ret)
  eSteps,   \* ghost: number of integrate calls on e
  eForces,  \* ghost: number of applyForce calls on e
  traj,     \* the Trajectory: physics, points, needsUpdate, needsRedraw
  params,   \* config.params
  tOp,      \* ghost: the last trigger or update call on the trajectory,
            \*        with params and pending as the last resimulation
            \*        found them, whether points was longer before it
            \*        than after it (before), and the deltaTime (delta)
            \*        it was given
  log,      \* ghost: the iteration records of the last resimulation
  trig,     \* ghost: origin and velocity of the last trigger call
  pending,  \* ghost: trigger calls since the last update call: 0, 1 or
            \*        2 for two and more
  hasRun    \* ghost: whether update has resimulated yet

elemVars == <<e, eBase, held, eTwin, ePre, eOp, eSteps, eForces>>

trajVars == <<traj, params, tOp, log, trig, pending, hasRun>>

VARIABLES
  rq,       \* a call of rayBoundaryIntersection: its arguments and, once
            \*   it has returned, its result
  bullet,   \* a Bullet driven directly through its interface
  bOp       \* ghost: the last call on bullet, with the bullet and the
            \*        params it found, the deltaTime it was given, and
            \*        the number n of update calls so far

VARIABLES
  engine,   \* the GameEngine: playing, animationFrameId, gameObjects (the
            \*   bullets fired into the scene)
  requests, \* the ids of the animation frame requests not yet called back
  phase,    \* where gameLoop is: "idle" between callbacks, "update" while
            \*   update() is calling the objects
  lastSet   \* ghost: the value last assigned to engine.playing, or "none"

VARIABLES
  lq        \* a call of rayLineIntersection: its arguments and, once it
            \*   has returned, its result

VARIABLES
  pass      \* the update pass of gameLoop followed object by object: the
            \*   number of passes begun (tick), the deltaTime of the pass
            \*   (delta), the length forEach read when the pass began (n),
            \*   the index forEach visits next (k), ghosts: the indices
            \*   visited in this pass (visited), per object the tick in
            \*   which it was added (born, 0 before the first frame) and
            \*   the number of update calls it received (count), and the
            \*   tick whose draw pass ran last (drawn)

rayVars == <<rq, lq>>

bulletVars == <<bullet, bOp>>

engineVars == <<engine, requests, phase, lastSet>>

otherVars == <<rayVars, bulletVars, engineVars, pass>>

vars == <<elemVars, trajVars, otherVars>>

ElCoords == 0..MaxCoord

ElVecs == {Vec2(x, y) : x \in ElCoords, y \in ElCoords}

\* the forces handed to applyForce
ElForces == {Vec2(1, 0), Vec2(0, 1), Vec2(0 - 1, 1)}

ElDeltas == 1..MaxDelta

RECURSIVE ApplyAll(_, _)
ApplyAll(el, forces) ==
  IF forces = <<>> THEN el
  ELSE ApplyAll(ApplyForce(el, Head(forces)), Tail(forces))

Reverse(s) == [i \in 1..Len(s) |-> s[Len(s) + 1 - i]]

\* no call of rayBoundaryIntersection is under study
RayIdle ==
  rq = [rayOrigin |-> Zero, rayDirection |-> Zero, boundaryValue |-> 0,
        boundaryType |-> "vertical", returned |-> FALSE, out |-> NoHit]

\* no call of rayLineIntersection is under study
RayLineIdle ==
  lq = [rayOrigin |-> Zero, rayDirection |-> Zero, lineStart |-> Zero,
        lineEnd |-> Zero, returned |-> FALSE, out |-> NoHit]

\* no bullet is under study
BulletIdle ==
  /\ bullet = NewBullet(Zero, Zero, 0)
  /\ bOp = [name |-> "new", pre |-> bullet, params |-> DefaultParams,
            delta |-> 0, n |-> 0]

\* the engine is not part of the specification
\* no update pass has begun on a scene of the given size
NoPass(size) ==
  [tick |-> 0, delta |-> 0, n |-> 0, k |-> 1, visited |-> <<>>,
   born |-> [j \in 1..size |-> 0], count |-> [j \in 1..size |-> 0],
   drawn |-> 0]

EngineIdle ==
  /\ engine = NewGameEngine
  /\ requests = {}
  /\ phase = "idle"
  /\ lastSet = "none"
  /\ pass = NoPass(0)

OtherIdle == RayIdle /\ RayLineIdle /\ BulletIdle /\ EngineIdle

\* the trajectory is not part of the element specification
TrajIdle ==
  /\ traj = NewTrajectory(Zero)
  /\ params = DefaultParams
  /\ tOp = [name |-> "new", ran |-> FALSE, params |-> params, pending |-> 0,
           before |-> "notLonger", delta |-> 0]
  /\ log = <<>>
  /\ trig = [set |-> FALSE, origin |-> Zero, velocity |-> Zero]
  /\ pending = 0
  /\ hasRun = FALSE

ElemInit ==
  /\ \E p \in ElVecs, q \in ElVecs, same \in BOOLEAN :
       e = NewElement(p, q, same)
  /\ eBase = e
  /\ held = <<>>
  /\ eTwin = e
  /\ ePre = e
  /\ eOp = [name |-> "new", delta |-> 0, ret |-> NoReturn]
  /\ eSteps = 0
  /\ eForces = 0
  /\ TrajIdle
  /\ OtherIdle

ElemApplyForce(force) ==
  /\ eForces < MaxForces
  /\ eForces' = eForces + 1
  /\ e' = ApplyForce(e, force)
  /\ held' = Append(held, force)
  /\ eOp' = [name |-> "applyForce", delta |-> 0, ret |-> eOp.ret]
  /\ UNCHANGED <<eBase, eTwin, ePre, eSteps>>
  /\ UNCHANGED <<trajVars, otherVars>>

ElemIntegrate(delta) ==
  /\ eSteps < MaxElSteps
  /\ e' = Integrate(e, delta).el
  /\ ePre' = e
  /\ eTwin' = Integrate(ApplyAll(eBase, Reverse(held)), delta).el
  /\ eBase' = e'
  /\ held' = <<>>
  /\ eOp' = [name |-> "integrate", delta |-> delta,
              ret |-> Integrate(e, delta).ret]
  /\ eSteps' = eSteps + 1
  /\ UNCHANGED eForces
  /\ UNCHANGED <<trajVars, otherVars>>

ElemNext ==
  \/ \E force \in ElForces : ElemApplyForce(force)
  \/ \E delta \in ElDeltas : ElemIntegrate(delta)

SpecElement == ElemInit /\ [][ElemNext]_vars

(***************************************************************************)
(* The trajectory preview as a state machine.  Spec: every input, at most   *)
(* one trigger, the first resimulation and whatever follows it.            *)
(* SpecCycles: any number of trigger/update cycles, over fewer inputs.     *)
(***************************************************************************)
\* positions handed to the Trajectory constructor
CtorPositions == {Zero, Vec2(0 - 60, 0), Vec2(FieldW + 60, 0)}

\* origins handed to trigger: left of the field, on its left edge, inside,
\* on its right edge; at the top and on the default ground line
TriggerOrigins ==
  {Vec2(x, y) : x \in {0 - 60, 0, FieldW \div 2, FieldW}, y \in {0, FieldAir}}

TriggerVelocities ==
  {Vec2(x, y) : x \in {0 - 150, 0, 40}, y \in {0 - 2600, 0 - 100, 60}}

DeltaTimes == {1, 2}

Winds == {Zero, Vec2(2, 0)}

Gravities == {0, 1}

GroundHeights == {DefaultParams.groundHeight, DefaultParams.groundHeight + 60}

\* the inputs of SpecCycles
CycleOrigins == {Vec2(0, 0), Vec2(FieldW \div 2, 0)}

CycleVelocities == {Vec2(0 - 150, 60), Vec2(40, 60)}

CycleGravities == {1, 2}

\* the element is not part of the trajectory specifications
ElemIdle ==
  /\ e = NewElement(Zero, Zero, FALSE)
  /\ eBase = e
  /\ held = <<>>
  /\ eTwin = e
  /\ ePre = e
  /\ eOp = [name |-> "new", delta |-> 0, ret |-> NoReturn]
  /\ eSteps = 0
  /\ eForces = 0

Init ==
  /\ ElemIdle
  /\ OtherIdle
  /\ \E position \in CtorPositions : traj = NewTrajectory(position)
  /\ params = DefaultParams
  /\ tOp = [name |-> "new", ran |-> FALSE, params |-> params, pending |-> 0,
           before |-> "notLonger", delta |-> 0]
  /\ log = <<>>
  /\ trig = [set |-> FALSE, origin |-> Zero, velocity |-> Zero]
  /\ pending = 0
  /\ hasRun = FALSE

\* Player.update: listener.trigger(this, startPos, velocity)
Trigger(startPos, velocity) ==
  /\ traj' = TrajectoryTrigger(traj, startPos, velocity)
  /\ tOp' = [tOp EXCEPT !.name = "trigger", !.ran = FALSE]
  /\ trig' = [set |-> TRUE, origin |-> startPos, velocity |-> velocity]
  /\ pending' = IF pending = 0 THEN 1 ELSE 2
  /\ UNCHANGED <<params, log, hasRun>>
  /\ UNCHANGED <<elemVars, otherVars>>

\* the first trigger call, made before the first resimulation
FirstTrigger(startPos, velocity) ==
  /\ ~hasRun
  /\ pending = 0
  /\ Trigger(startPos, velocity)

\* GameEngine.update: trajectory.update(engine, deltaTime)
Update(deltaTime) ==
  \E u \in {TrajectoryUpdate(traj, deltaTime, params, Dims)} :
     /\ traj' = u.t
     /\ tOp' = IF u.ran
               THEN [name |-> "update", ran |-> TRUE, params |-> params,
                     pending |-> pending,
                     before |-> IF Len(traj.points) > Len(u.t.points)
                                THEN "longer" ELSE "notLonger",
                     delta |-> deltaTime]
               ELSE [tOp EXCEPT !.name = "update", !.ran = FALSE]
     /\ log' = IF u.ran THEN u.log ELSE log
     /\ pending' = 0
     /\ hasRun' = (hasRun \/ u.ran)
     /\ params' = IF u.ran THEN ForceVectors(params, TimeStep).params
                  ELSE params
     /\ UNCHANGED trig
     /\ UNCHANGED <<elemVars, otherVars>>

\* GameEngine.draw: trajectory.render(engine), which calls draw()
Draw ==
  /\ traj' = TrajectoryDraw(traj)
  /\ tOp' = [tOp EXCEPT !.name = "draw"]
  /\ UNCHANGED <<params, log, trig, pending, hasRun>>
  /\ UNCHANGED <<elemVars, otherVars>>

\* the tweakpane bindings of config.ts
SetWind(wind) ==
  /\ params' = [params EXCEPT !.wind = wind]
  /\ UNCHANGED <<traj, tOp, log, trig, pending, hasRun>>
  /\ UNCHANGED <<elemVars, otherVars>>

SetGravity(gravity) ==
  /\ params' = [params EXCEPT !.gravity = gravity]
  /\ UNCHANGED <<traj, tOp, log, trig, pending, hasRun>>
  /\ UNCHANGED <<elemVars, otherVars>>

SetGroundHeight(groundHeight) ==
  /\ params' = [params EXCEPT !.groundHeight = groundHeight]
  /\ UNCHANGED <<traj, tOp, log, trig, pending, hasRun>>
  /\ UNCHANGED <<elemVars, otherVars>>

Next ==
  \/ \E startPos \in TriggerOrigins, velocity \in TriggerVelocities :
       FirstTrigger(startPos, velocity)
  \/ \E deltaTime \in {TimeStep} : Update(deltaTime)
  \/ Draw
  \/ \E wind \in Winds : SetWind(wind)
  \/ \E gravity \in Gravities : SetGravity(gravity)
  \/ \E groundHeight \in GroundHeights : SetGroundHeight(groundHeight)

Spec == Init /\ [][Next]_vars

CyclesInit ==
  /\ Init
  /\ traj = NewTrajectory(Zero)

CyclesNext ==
  \/ \E startPos \in CycleOrigins, velocity \in CycleVelocities :
       Trigger(startPos, velocity)
  \/ \E deltaTime \in DeltaTimes : Update(deltaTime)
  \/ Draw
  \/ \E wind \in Winds : SetWind(wind)
  \/ \E gravity \in CycleGravities : SetGravity(gravity)

SpecCycles == CyclesInit /\ [][CyclesNext]_vars

(***************************************************************************)
(* Calls of rayBoundaryIntersection                                        *)
(***************************************************************************)
RayOrigins == {Vec2(x, y) : x \in {0 - 3, 0, 5, 10}, y \in {0 - 3, 0, 5, 10}}

RayDirections ==
  {Vec2(x, y) : x \in {0 - 2, 0 - 1, 0, 1, 3}, y \in {0 - 2, 0 - 1, 0, 1, 3}}

RayBoundaries == {0, 5, 10}

BoundaryTypes == {"vertical", "horizontal"}

RayInit ==
  /\ ElemIdle
  /\ TrajIdle
  /\ BulletIdle
  /\ EngineIdle
  /\ RayLineIdle
  /\ \E rayOrigin \in RayOrigins, rayDirection \in RayDirections,
        boundaryValue \in RayBoundaries, boundaryType \in BoundaryTypes :
       rq = [rayOrigin |-> rayOrigin, rayDirection |-> rayDirection,
             boundaryValue |-> boundaryValue, boundaryType |-> boundaryType,
             returned |-> FALSE, out |-> NoHit]

\* the call rayBoundaryIntersection(rayOrigin, rayDirection, boundaryValue,
\* boundaryType) returns
RayCall ==
  /\ ~rq.returned
  /\ rq' = [rq EXCEPT !.returned = TRUE,
                      !.out = RayBoundaryIntersection(rq.rayOrigin,
                                                      rq.rayDirection,
                                                      rq.boundaryValue,
                                                      rq.boundaryType)]
  /\ UNCHANGED lq
  /\ UNCHANGED <<elemVars, trajVars, bulletVars, engineVars, pass>>

RayNext == RayCall

SpecRay == RayInit /\ [][RayNext]_vars

(***************************************************************************)
(* Calls of rayLineIntersection                                            *)
(***************************************************************************)
LinePoints == {Vec2(x, y) : x \in {0 - 1, 0, 2}, y \in {0 - 1, 0, 2}}

LineDirections == {Vec2(x, y) : x \in {0 - 1, 0, 1, 2}, y \in {0 - 1, 0, 1, 2}}

RayLineInit ==
  /\ ElemIdle
  /\ TrajIdle
  /\ BulletIdle
  /\ EngineIdle
  /\ RayIdle
  /\ \E rayOrigin \in LinePoints, rayDirection \in LineDirections,
        lineStart \in LinePoints, lineEnd \in LinePoints :
       lq = [rayOrigin |-> rayOrigin, rayDirection |-> rayDirection,
             lineStart |-> lineStart, lineEnd |-> lineEnd,
             returned |-> FALSE, out |-> NoHit]

\* the call rayLineIntersection(rayOrigin, rayDirection, lineStart,
\* lineEnd) returns
RayLineCall ==
  /\ ~lq.returned
  /\ lq' = [lq EXCEPT !.returned = TRUE,
                      !.out = RayLineIntersection(lq.rayOrigin,
                                                  lq.rayDirection,
                                                  lq.lineStart, lq.lineEnd)]
  /\ UNCHANGED rq
  /\ UNCHANGED <<elemVars, trajVars, bulletVars, engineVars, pass>>

RayLineNext == RayLineCall

SpecRayLine == RayLineInit /\ [][RayLineNext]_vars

(***************************************************************************)
(* A Bullet and the calls on it                                            *)
(***************************************************************************)
\* the position prop: Player passes the tip of the cannon
BulletStarts ==
  {Vec2(x, y) : x \in {BulletRadius, FieldW \div 2, FieldW},
                y \in {0, FieldAir \div 2, FieldAir}}

BulletVelocities ==
  {Vec2(0 - 150, 0 - 100), Vec2(0, 0 - 100), Vec2(40, 60), Zero}

BulletInit ==
  /\ ElemIdle
  /\ TrajIdle
  /\ RayIdle
  /\ RayLineIdle
  /\ EngineIdle
  /\ \E position \in BulletStarts, velocity \in BulletVelocities :
       bullet = NewBullet(position, velocity, BulletRadius)
  /\ bOp = [name |-> "new", pre |-> bullet, params |-> params, delta |-> 0,
            n |-> 0]

\* GameEngine.update: bullet.update(engine, deltaTime)
BulletTick(deltaTime) ==
  /\ bOp.n < MaxBulletSteps
  /\ bullet' = BulletUpdate(bullet, deltaTime, params, Dims)
  /\ bOp' = [name |-> "update", pre |-> bullet, params |-> params,
             delta |-> deltaTime, n |-> bOp.n + 1]
  /\ params' = ForceVectors(params, deltaTime).params
  /\ UNCHANGED <<traj, tOp, log, trig, pending, hasRun>>
  /\ UNCHANGED <<elemVars, rayVars, engineVars, pass>>

BulletNext ==
  \/ \E deltaTime \in DeltaTimes : BulletTick(deltaTime)
  \/ \E wind \in Winds : SetWind(wind)

SpecBullet == BulletInit /\ [][BulletNext]_vars

(***************************************************************************)
(* The simulation core and the parameter provider                          *)
(***************************************************************************)
CoreOrigins == {Vec2(FieldW \div 2, 0)}

CoreVelocities == {Vec2(0 - 150, 60)}

\* a trajectory and a bullet that read the same params
CoreInit ==
  /\ ElemIdle
  /\ RayIdle
  /\ RayLineIdle
  /\ EngineIdle
  /\ traj = NewTrajectory(Zero)
  /\ params = DefaultParams
  /\ tOp = [name |-> "new", ran |-> FALSE, params |-> params, pending |-> 0,
           before |-> "notLonger", delta |-> 0]
  /\ log = <<>>
  /\ trig = [set |-> FALSE, origin |-> Zero, velocity |-> Zero]
  /\ pending = 0
  /\ hasRun = FALSE
  /\ \E position \in CoreOrigins, velocity \in CoreVelocities :
       bullet = NewBullet(position, velocity, BulletRadius)
  /\ bOp = [name |-> "new", pre |-> bullet, params |-> params, delta |-> 0,
            n |-> 0]

CoreNext ==
  \/ \E startPos \in CoreOrigins, velocity \in CoreVelocities :
       Trigger(startPos, velocity)
  \/ \E deltaTime \in {TimeStep} : Update(deltaTime)
  \/ \E deltaTime \in DeltaTimes : BulletTick(deltaTime)
  \/ \E wind \in Winds : SetWind(wind)

SpecCore == CoreInit /\ [][CoreNext]_vars

(***************************************************************************)
(* The game loop                                                           *)
(***************************************************************************)
\* the bullets Player.update fires
FirePositions == {Vec2(FieldW \div 2, FieldAir \div 2)}

FireVelocities == {Vec2(0, 0 - 100), Vec2(40, 60)}

\* after new GameEngine(...)
EngineInit ==
  /\ ElemIdle
  /\ TrajIdle
  /\ RayIdle
  /\ RayLineIdle
  /\ BulletIdle
  /\ EngineIdle

\* engine.playing = p between two callbacks
AssignPlaying(p) ==
  /\ phase = "idle"
  /\ \E u \in {SetPlaying(engine, requests, p)} :
       /\ engine' = u.g
       /\ requests' = u.requests
  /\ lastSet' = IF p THEN "true" ELSE "false"
  /\ UNCHANGED phase
  /\ UNCHANGED <<elemVars, trajVars, rayVars, bulletVars, pass>>

\* the browser calls back the request id: gameLoop returns at once when
\* playing is false, and otherwise calls update()
FrameCallback(id, deltaTime) ==
  /\ phase = "idle"
  /\ id \in requests
  /\ requests' = requests \ {id}
  /\ IF engine.playing
     THEN /\ engine' = EngineUpdate(engine, deltaTime, params, Dims)
          /\ phase' = "update"
     ELSE UNCHANGED <<engine, phase>>
  /\ UNCHANGED lastSet
  /\ UNCHANGED <<elemVars, trajVars, rayVars, bulletVars, pass>>

\* an object's update assigns engine.playing = p
AssignPlayingInUpdate(p) ==
  /\ phase = "update"
  /\ p => Cardinality(requests) < MaxRequests
  /\ \E u \in {SetPlaying(engine, requests, p)} :
       /\ engine' = u.g
       /\ requests' = u.requests
  /\ lastSet' = IF p THEN "true" ELSE "false"
  /\ UNCHANGED phase
  /\ UNCHANGED <<elemVars, trajVars, rayVars, bulletVars, pass>>

\* Player.update fires: engine.addGameObject(new Bullet({position,
\* velocity}))
Fire(position, velocity) ==
  /\ phase = "update"
  /\ Len(engine.gameObjects) < MaxBullets
  /\ engine' = AddGameObject(engine,
                             NewBullet(position, velocity, BulletRadius))
  /\ UNCHANGED <<requests, phase, lastSet>>
  /\ UNCHANGED <<elemVars, trajVars, rayVars, bulletVars, pass>>

\* update() has returned: draw(), then
\* animationFrameId = requestAnimationFrame(gameLoop)
FrameEnd ==
  /\ phase = "update"
  /\ \E u \in {Requested(engine, requests,
                         FreshId(requests, engine.animationFrameId))} :
       /\ engine' = u.g
       /\ requests' = u.requests
  /\ phase' = "idle"
  /\ UNCHANGED lastSet
  /\ UNCHANGED <<elemVars, trajVars, rayVars, bulletVars, pass>>

EngineNext ==
  \/ \E p \in BOOLEAN : AssignPlaying(p)
  \/ \E id \in requests : FrameCallback(id, TimeStep)
  \/ \E p \in BOOLEAN : AssignPlayingInUpdate(p)
  \/ \E position \in FirePositions, velocity \in FireVelocities :
       Fire(position, velocity)
  \/ FrameEnd

SpecEngine == EngineInit /\ [][EngineNext]_vars

\* the scene as main leaves it running: engine.playing = true once, and no
\* further assignment
SceneInit ==
  /\ ElemIdle
  /\ TrajIdle
  /\ RayIdle
  /\ RayLineIdle
  /\ BulletIdle
  /\ \E u \in {SetPlaying(NewGameEngine, {}, TRUE)} :
       /\ engine = u.g
       /\ requests = u.requests
  /\ phase = "idle"
  /\ lastSet = "true"
  /\ pass = NoPass(0)

SceneNext ==
  \/ \E id \in requests : FrameCallback(id, TimeStep)
  \/ \E position \in FirePositions, velocity \in FireVelocities :
       Fire(position, velocity)
  \/ FrameEnd

\* the browser calls back every pending animation frame request, and
\* update() and draw() return
SceneFairness ==
  /\ WF_vars(\E id \in requests : FrameCallback(id, TimeStep))
  /\ WF_vars(FrameEnd)

SpecScene == SceneInit /\ [][SceneNext]_vars /\ SceneFairness

\* the update pass of gameLoop, object by object
MaxTicks == 3

\* main: the four addGameObject calls, then engine.playing = true
PassInit ==
  /\ ElemIdle
  /\ TrajIdle
  /\ RayIdle
  /\ RayLineIdle
  /\ BulletIdle
  /\ \E u \in {SetPlaying(
                  AddGameObject(
                    AddGameObject(
                      AddGameObject(
                        AddGameObject(NewGameEngine, SceneObjects[1]),
                        SceneObjects[2]),
                      SceneObjects[3]),
                    SceneObjects[4]),
                  {}, TRUE)} :
       /\ engine = u.g
       /\ requests = u.requests
  /\ phase = "idle"
  /\ lastSet = "true"
  /\ pass = NoPass(Len(SceneObjects))

\* the browser calls back the request id: gameLoop computes deltaTime and
\* calls update(), whose forEach reads the length of gameObjects
PassBegin(id, deltaTime) ==
  /\ phase = "idle"
  /\ id \in requests
  /\ engine.playing
  /\ pass.tick < MaxTicks
  /\ requests' = requests \ {id}
  /\ phase' = "update"
  /\ pass' = [pass EXCEPT !.tick = @ + 1, !.delta = deltaTime,
                          !.n = Len(engine.gameObjects), !.k = 1,
                          !.visited = <<>>]
  /\ UNCHANGED <<engine, lastSet>>
  /\ UNCHANGED <<elemVars, trajVars, rayVars, bulletVars>>

\* forEach calls update on the object at index k; Player.update may fire
\* (fire): engine.addGameObject(new Bullet({position, velocity}))
PassVisit(fire, position, velocity) ==
  /\ phase = "update"
  /\ pass.k <= ForEachLength(pass.n, engine.gameObjects)
  /\ LET obj == engine.gameObjects[pass.k]
         g == [engine EXCEPT !.gameObjects[pass.k] =
                               IF IsBullet(obj)
                               THEN ObjectUpdate(obj, pass.delta, params,
                                                 Dims)
                               ELSE obj]
         spawns == /\ ~IsBullet(obj)
                   /\ obj.id = "player"
                   /\ fire
                   /\ Len(engine.gameObjects) < Len(SceneObjects) + MaxBullets
         seen == [pass EXCEPT !.k = @ + 1, !.visited = Append(@, pass.k),
                              !.count[pass.k] = @ + 1]
     IN IF spawns
        THEN /\ engine' = AddGameObject(g, NewBullet(position, velocity,
                                                     BulletRadius))
             /\ pass' = [seen EXCEPT !.born = Append(@, pass.tick),
                                     !.count = Append(@, 0)]
        ELSE /\ engine' = g
             /\ pass' = seen
  /\ UNCHANGED <<requests, phase, lastSet>>
  /\ UNCHANGED <<elemVars, trajVars, rayVars, bulletVars>>

\* forEach has visited its last index and update() returns: draw(), then
\* animationFrameId = requestAnimationFrame(gameLoop)
PassEnd ==
  /\ phase = "update"
  /\ pass.k > ForEachLength(pass.n, engine.gameObjects)
  /\ \E u \in {Requested(engine, requests,
                         FreshId(requests, engine.animationFrameId))} :
       /\ engine' = u.g
       /\ requests' = u.requests
  /\ phase' = "idle"
  /\ pass' = [pass EXCEPT !.drawn = pass.tick]
  /\ UNCHANGED lastSet
  /\ UNCHANGED <<elemVars, trajVars, rayVars, bulletVars>>

PassNext ==
  \/ \E id \in requests : PassBegin(id, TimeStep)
  \/ \E fire \in BOOLEAN, position \in FirePositions,
        velocity \in FireVelocities : PassVisit(fire, position, velocity)
  \/ PassEnd

SpecPass == PassInit /\ [][PassNext]_vars

(***************************************************************************)
(* The preview and the bullet fired from the same state                    *)
(***************************************************************************)
\* the parameters are set before the player aims
PreviewSetWind(wind) ==
  /\ ~trig.set
  /\ SetWind(wind)

\* the player aims once
Aim(startPos, velocity) ==
  /\ ~trig.set
  /\ Trigger(startPos, velocity)

\* the preview on display was computed from the last trigger call, with
\* the parameters as they are
PreviewOfTrigger ==
  /\ trig.set
  /\ pending = 0
  /\ tOp.pending > 0
  /\ tOp.params = params

\* no bullet has been fired
NoShot == bullet = NewBullet(Zero, Zero, 0)

\* Player.update fires with the state the preview was triggered with
Shoot ==
  /\ PreviewOfTrigger
  /\ NoShot
  /\ bullet' = NewBullet(trig.origin, trig.velocity, BulletRadius)
  /\ bOp' = [name |-> "new", pre |-> bullet', params |-> params,
             delta |-> 0, n |-> 0]
  /\ UNCHANGED <<elemVars, trajVars, rayVars, engineVars, pass>>

\* a frame of 1/60 s for the bullet in flight
Flight ==
  /\ ~NoShot
  /\ BulletTick(TimeStep)

PreviewNext ==
  \/ \E wind \in Winds : PreviewSetWind(wind)
  \/ \E startPos \in BulletStarts,
        velocity \in BulletVelocities \cup {Vec2(0 - 3, 60)} :
       Aim(startPos, velocity)
  \/ \E deltaTime \in {TimeStep} : Update(deltaTime)
  \/ Shoot
  \/ Flight

SpecPreview == CyclesInit /\ [][PreviewNext]_vars

(***************************************************************************)
(* Claims about the Element (checked under SpecElement)                    *)
(***************************************************************************)
\* C1 (as claimed): after integrate(delta) from position p, oldPosition q and
\* accumulated acceleration a, the position is p + (p - q) + a * delta^2.
C1_VerletPosition ==
  eOp.name = "integrate" =>
    e.position = VAdd(VAdd(ePre.position,
                           VSub(ePre.position, ePre.oldPosition)),
                      VScale(ePre.acceleration, eOp.delta * eOp.delta))

\* C2: after any integrate call the acceleration is the zero vector and
\* oldPosition is the position the element had immediately before the call.
C2_ResetAfterIntegrate ==
  eOp.name = "integrate" =>
    /\ e.acceleration = Zero
    /\ e.oldPosition = ePre.position

\* C2 witness: a second integrate call, made with a non-zero accumulator
\* from a position that the first call had moved.
C2_Witness ==
  /\ eOp.name = "integrate"
  /\ eSteps = 2
  /\ ePre.acceleration # Zero
  /\ ePre.position # ePre.oldPosition

\* C3: applying the forces of one step in the opposite order leaves the same
\* position, oldPosition and acceleration after integrate.
C3_ForceOrderIndependent ==
  eOp.name = "integrate" =>
    /\ e.position = eTwin.position
    /\ e.oldPosition = eTwin.oldPosition
    /\ e.acceleration = eTwin.acceleration

\* C3 witness: two different forces were applied before an integrate call
\* that moved the element.
C3_Witness ==
  /\ eOp.name = "integrate"
  /\ ePre.acceleration # Zero
  /\ e.position # ePre.position
  /\ \E f1 \in ElForces, f2 \in ElForces :
       /\ f1 # f2
       /\ f1 # Zero
       /\ f2 # Zero
       /\ ePre.acceleration = VAdd(f1, f2)
       /\ eForces >= 2

(***************************************************************************)
(* Claims about the trajectory preview                                     *)
(***************************************************************************)
\* engine.dims.y - params["ground height"]
GroundLine(P) == Dims.y - P.groundHeight

\* the velocity an element carries: position - oldPosition
Velocity(el) == VSub(el.position, el.oldPosition)

\* the sub-steps of the last resimulation that left the field sideways
WrapSteps == {j \in 1..Len(log) : log[j].kind \in {"left", "right"}}

\* the entry of points at index k is a point on the vertical edge x = edge
OnEdge(k, edge) ==
  /\ k \in 1..Len(traj.points)
  /\ traj.points[k].k = "vec"
  /\ traj.points[k].x = Whole(edge)

\* C4: a sub-step that leaves the field through x < 0 or x > width without
\* a ground hit appends, next to each other and in this order, the crossing
\* point on that edge, the null sentinel and the teleported position on the
\* opposite edge; so every null of points has a point of one vertical edge
\* right before it and a point of the opposite edge right after it, and no
\* two nulls are adjacent
C4_WrapAppendsCrossingNullTeleport ==
  /\ \A j \in WrapSteps :
       LET r == log[j]
           edge == IF r.post.position.x < 0 THEN 0 ELSE Dims.x
           far == Dims.x - edge
           first == r.at + Len(r.sample) + 1
       IN /\ first + 2 <= Len(traj.points)
          /\ OnEdge(first, edge)
          /\ traj.points[first] = r.hit.point
          /\ traj.points[first + 1] = NullEntry
          /\ traj.points[first + 2] = Pt(Vec2(far, r.post.position.y))
  /\ \A k \in 1..Len(traj.points) :
       traj.points[k].k = "null" =>
         \/ OnEdge(k - 1, 0) /\ OnEdge(k + 1, Dims.x)
         \/ OnEdge(k - 1, Dims.x) /\ OnEdge(k + 1, 0)

\* C5: the velocity position - oldPosition right after a wrap, left or
\* right, is the velocity the sub-step had right after its integration
C5_WrapPreservesVelocity ==
  \A j \in WrapSteps :
    /\ Velocity(log[j].after) = Velocity(log[j].post)
    /\ Velocity(log[j].after) = log[j].acceleration

\* a resimulation from a trigger wrapped on the left and on the right with
\* a velocity that is not zero
C5_Witness ==
  /\ tOp.ran /\ tOp.pending > 0
  /\ \E j \in WrapSteps :
       log[j].kind = "left" /\ Velocity(log[j].post).y # 0
  /\ \E j \in WrapSteps :
       log[j].kind = "right" /\ Velocity(log[j].post).y # 0

\* the last call on the trajectory was an update that resimulated the last
\* trigger
RanFromTrigger == tOp.name = "update" /\ tOp.ran /\ tOp.pending > 0

\* the last entry of points is a point below the ground line of the
\* resimulation
EndsOnGround ==
  /\ traj.points # <<>>
  /\ LET last == traj.points[Len(traj.points)]
     IN /\ last.k = "vec"
        /\ last.y.def
        /\ last.y.w > GroundLine(tOp.params)

\* zero wind, positive gravity, origin not below the ground line
C6_Case ==
  /\ RanFromTrigger
  /\ tOp.params.wind = Zero
  /\ tOp.params.gravity > 0
  /\ trig.origin.y <= GroundLine(tOp.params)

\* the height after n sub-steps of free flight: the sub-step scales gravity
\* by 50000 * timeStep and integrate by timeStep squared
HeightAfter(n) ==
  trig.origin.y + n * trig.velocity.y
  + ((n * (n + 1)) \div 2)
    * (tOp.params.gravity * ForceScale * TimeStep * TimeStep * TimeStep)

\* C6 as stated: with zero wind and positive gravity, from an origin above
\* the ground and for every velocity, the resimulation ends by ground
\* impact within the 200 sub-steps
C6_AlwaysEndsOnGround == C6_Case => EndsOnGround

\* C6, amended: it does so when the free-flight height after the 200
\* sub-steps, origin.y + 200 * velocity.y + 20100 * gravity * 50000 / 60^3,
\* is below the ground line
C6_EndsOnGroundWithinCap ==
  (C6_Case /\ HeightAfter(MaxIterations) > GroundLine(tOp.params))
    => EndsOnGround

\* a shot upwards that came down on the ground after more than ten
\* sub-steps
C6_Witness ==
  /\ C6_Case
  /\ HeightAfter(MaxIterations) > GroundLine(tOp.params)
  /\ trig.velocity.y < 0
  /\ Len(log) > 10
  /\ log[Len(log)].kind = "ground"

\* C7: an update that finds needsUpdate false changes neither points nor
\* the physics state nor needsRedraw, whatever its deltaTime
C7_IdleUpdateIsNoOp ==
  [][(~traj.needsUpdate /\ \E deltaTime \in DeltaTimes : Update(deltaTime))
       => /\ traj'.points = traj.points
          /\ traj'.physics = traj.physics
          /\ traj'.needsRedraw = traj.needsRedraw
          /\ traj'.needsUpdate = traj.needsUpdate]_vars

\* an update found nothing to do after an earlier one had consumed a
\* trigger, with the points of that resimulation still there and drawn
C7_Witness ==
  /\ tOp.name = "update" /\ ~tOp.ran
  /\ tOp.pending > 0
  /\ traj.points # <<>>
  /\ ~traj.needsUpdate
  /\ ~traj.needsRedraw

\* C8: on a Trajectory that was never triggered, update leaves points
\* empty and does not mark the object for redraw
C8_NewTrajectoryIsIdle ==
  ~trig.set => (traj.points = <<>> /\ ~traj.needsRedraw)

\* C9: trigger(origin, velocity) sets position to origin, oldPosition to
\* origin - velocity and the acceleration to zero, sets needsUpdate, leaves
\* points as they are, and an integrate without a force then moves the
\* position by exactly velocity, whatever the delta
C9_TriggerSetsState ==
  [][Trigger(trig'.origin, trig'.velocity)
       => /\ traj'.physics.position = trig'.origin
          /\ traj'.physics.oldPosition = VSub(trig'.origin, trig'.velocity)
          /\ traj'.physics.acceleration = Zero
          /\ traj'.needsUpdate
          /\ traj'.points = traj.points
          /\ \A delta \in ElDeltas :
               Integrate(traj'.physics, delta).el.position
                 = VAdd(trig'.origin, trig'.velocity)]_vars

\* a trigger with a velocity that is not zero on a trajectory that holds
\* the points of an earlier resimulation
C9_Witness ==
  /\ tOp.name = "trigger"
  /\ trig.velocity # Zero
  /\ traj.points # <<>>
  /\ traj.physics.position = trig.origin
  /\ traj.needsUpdate

\* the resimulation of the last trigger alone, under the params of the
\* last resimulation
LastTriggerAlone ==
  Simulate(NewElement(trig.origin, VSub(trig.origin, trig.velocity), FALSE),
           tOp.params, Dims)

\* C10: after several triggers and one update, points and the physics
\* state are those of the last trigger alone, and that update made one
\* resimulation: one pass of the loop, starting at the last origin
C10_LastTriggerWins ==
  (RanFromTrigger /\ tOp.pending = 2) =>
    /\ traj.points = LastTriggerAlone.points
    /\ traj.physics = LastTriggerAlone.el
    /\ traj.points[1] = Pt(trig.origin)
    /\ log[1].pre.position = trig.origin
    /\ \A j \in 1..Len(log) : log[j].i = j - 1
    /\ ~traj.needsUpdate

\* an update resimulated after two or more triggers
C10_Witness ==
  /\ RanFromTrigger
  /\ tOp.pending = 2
  /\ Len(traj.points) > 1

\* the entries the iteration with record r pushed
Pushed(r) == r.sample \o r.tail

\* the entries of points that the iteration with record r pushed
Slice(r) == SubSeq(traj.points, r.at + 1, r.at + Len(Pushed(r)))

\* C11: after a resimulation points holds the entries that this run pushed
\* and nothing else: the first iteration pushed at index 1, every iteration
\* right after the one before it, and the last push is the last entry; so
\* points never holds more than one run can push
C11_PointsRebuiltFromEmpty ==
  hasRun =>
    /\ log # <<>>
    /\ log[1].at = 0
    /\ \A j \in 1..Len(log) :
         /\ Slice(log[j]) = Pushed(log[j])
         /\ log[j].at + Len(Pushed(log[j]))
              = IF j < Len(log) THEN log[j + 1].at ELSE Len(traj.points)
    /\ Len(traj.points) <= 4 * MaxIterations

\* a resimulation of a trigger found more entries in points than it left
C11_Witness ==
  /\ RanFromTrigger
  /\ tOp.before = "longer"
  /\ Len(traj.points) > 1

\* C12: a resimulation gives the same points and the same physics state
\* whatever deltaTime update was called with
C12_DeltaTimeIndependent ==
  [][\A d1 \in DeltaTimes :
       (traj.needsUpdate /\ Update(d1)) =>
         \A d2 \in DeltaTimes :
           TrajectoryUpdate(traj, d2, params, Dims).t = traj']_vars

\* a trigger was resimulated by an update called with a deltaTime that is
\* not the fixed step, and the run took several sub-steps
C12_Witness ==
  /\ RanFromTrigger
  /\ tOp.delta # TimeStep
  /\ Len(log) > 2
  /\ traj.points = LastTriggerAlone.points

\* C13: a resimulation makes at most 200 sub-steps; only a ground hit ends
\* the loop early, and it ends it at once; after a wrap the next sub-step
\* starts from the wrapped element
C13_AtMostCapSubSteps ==
  /\ Len(log) <= MaxIterations
  /\ \A j \in 1..Len(log) :
       /\ log[j].i = j - 1
       /\ log[j].kind = "ground" => j = Len(log)
       /\ (j = Len(log) /\ j < MaxIterations) => log[j].kind = "ground"
       /\ j < Len(log) => log[j + 1].pre = log[j].after
  /\ hasRun => log # <<>>

\* a resimulation wrapped, went on, and used up the 200 sub-steps in the
\* air
C13_Witness ==
  /\ Len(log) = MaxIterations
  /\ log[MaxIterations].kind # "ground"
  /\ \E j \in WrapSteps : j < MaxIterations /\ log[j + 1].pre = log[j].after
  /\ traj.points # <<>>
  /\ ~traj.needsUpdate

\* C14: an update that resimulated leaves needsUpdate false and
\* needsRedraw true, and the draw of the frame that follows redraws the
\* preview and leaves needsRedraw false
C14_ResimulateThenRedrawOnce ==
  /\ (tOp.name = "update" /\ tOp.ran)
       => (~traj.needsUpdate /\ traj.needsRedraw)
  /\ (tOp.name = "draw" /\ ~traj.needsUpdate) => ~traj.needsRedraw

(***************************************************************************)
(* Claims about rayBoundaryIntersection (checked under SpecRay)            *)
(***************************************************************************)
\* the coordinate of v across the boundary (x for a vertical boundary) and
\* the one along it
Across(v) == IF rq.boundaryType = "vertical" THEN v.x ELSE v.y

Along(v) == IF rq.boundaryType = "vertical" THEN v.y ELSE v.x

\* the number q = w + n/d is Over(q) / q.d
Over(q) == q.w * q.d + q.n

\* the call with these arguments has returned
IsCall(rayOrigin, rayDirection, boundaryValue, boundaryType) ==
  /\ rq.returned
  /\ rq.rayOrigin = rayOrigin
  /\ rq.rayDirection = rayDirection
  /\ rq.boundaryValue = boundaryValue
  /\ rq.boundaryType = boundaryType

\* C15: when intersects is true, t * direction = boundary - origin across
\* the boundary with t >= 0, the point has exactly the boundary value
\* across the boundary and origin + direction * t along it; origin (5,5),
\* direction (1,1), vertical boundary 10 gives point (10,10) and t = 5
C15_IntersectionExact ==
  /\ (rq.returned /\ rq.out.intersects) =>
       LET t == rq.out.t
           on == Across([x |-> rq.out.point.x, y |-> rq.out.point.y])
           off == Along([x |-> rq.out.point.x, y |-> rq.out.point.y])
       IN /\ t.def /\ t.d > 0 /\ Over(t) >= 0
          /\ Over(t) * Across(rq.rayDirection)
               = (rq.boundaryValue - Across(rq.rayOrigin)) * t.d
          /\ rq.out.point.k = "vec"
          /\ on = Whole(rq.boundaryValue)
          /\ off.def /\ off.d > 0
          /\ Over(off) * t.d
               = (Along(rq.rayOrigin) * t.d
                    + Along(rq.rayDirection) * Over(t)) * off.d
  /\ IsCall(Vec2(5, 5), Vec2(1, 1), 10, "vertical") =>
       rq.out = [intersects |-> TRUE, point |-> Pt(Vec2(10, 10)),
                 t |-> Whole(5)]

\* a call returned an intersection whose t and whose point are not whole
\* numbers
C15_Witness ==
  /\ rq.returned /\ rq.out.intersects
  /\ rq.out.t.n # 0
  /\ rq.out.point.y.n # 0
  /\ rq.rayDirection.x < 0

\* C16: intersects is false exactly when the direction has no component
\* across the boundary or the boundary is behind the origin (t < 0); then
\* there is neither point nor t, and otherwise (t = 0 included) both are
\* there; direction (0,1) never meets a vertical boundary, and origin
\* (10,0), direction (1,0) does not meet the vertical boundary 5
C16_NoIntersectionCases ==
  /\ rq.returned =>
       LET parallel == Across(rq.rayDirection) = 0
           behind == (rq.boundaryValue - Across(rq.rayOrigin))
                       * Across(rq.rayDirection) < 0
       IN /\ ~rq.out.intersects <=> (parallel \/ behind)
          /\ ~rq.out.intersects
               => (rq.out.point = UndefinedEntry /\ rq.out.t = NoNumber)
          /\ rq.out.intersects
               => (rq.out.point.k = "vec" /\ rq.out.point.x.def
                     /\ rq.out.point.y.def /\ rq.out.t.def)
          /\ (~parallel /\ rq.boundaryValue = Across(rq.rayOrigin))
               => (rq.out.intersects /\ rq.out.t = Whole(0))
  /\ (rq.returned /\ rq.boundaryType = "vertical"
        /\ rq.rayDirection = Vec2(0, 1)) => ~rq.out.intersects
  /\ IsCall(Vec2(10, 0), Vec2(1, 0), 5, "vertical") => ~rq.out.intersects

\* the call with origin (10,0), direction (1,0) and the vertical boundary 5
\* behind the origin returned
C16_Witness ==
  /\ IsCall(Vec2(10, 0), Vec2(1, 0), 5, "vertical")
  /\ ~rq.out.intersects

(***************************************************************************)
(* Claims about the Bullet (checked under SpecBullet)                      *)
(***************************************************************************)
\* C17: after update, with the position that its one integrate call left,
\* isDestroyed is true if position.y + radius is below the ground line or
\* position.x is outside [0, width]; a bullet that was not destroyed and
\* meets none of these is still not destroyed; and x is where the step put
\* it, never moved to the opposite edge
C17_DestroyedWhenOutside ==
  bOp.name = "update" =>
    LET pos == bullet.physics.position
        was == bOp.pre.physics
        outside == \/ pos.y + bullet.radius
                        > Dims.y - bOp.params.groundHeight
                   \/ pos.x < 0
                   \/ pos.x > Dims.x
    IN /\ outside => bullet.isDestroyed
       /\ (~bOp.pre.isDestroyed /\ ~outside) => ~bullet.isDestroyed
       /\ pos.x = was.position.x + (was.position.x - was.oldPosition.x)
                    + ForceScale * bOp.params.wind.x
                        * bOp.delta * bOp.delta * bOp.delta

\* an update took a live bullet out through the left edge, above the
\* ground line
C17_Witness ==
  /\ bOp.name = "update"
  /\ ~bOp.pre.isDestroyed
  /\ bullet.isDestroyed
  /\ bullet.physics.position.x < 0
  /\ bullet.physics.position.y + bullet.radius
       <= Dims.y - bOp.params.groundHeight

(***************************************************************************)
(* Claims about the game loop (checked under SpecEngine)                   *)
(***************************************************************************)
\* the loop is running: playing is true and a callback is pending, so the
\* objects are updated and drawn on the frames that follow
LoopRuns == engine.playing /\ requests # {}

\* C18: between two callbacks the loop is running exactly when the value
\* last assigned to engine.playing is true
C18_PlayingIsASwitch ==
  (phase = "idle" /\ lastSet # "none") => (LoopRuns <=> lastSet = "true")

(***************************************************************************)
(* Claims about the scene (checked under SpecScene)                        *)
(***************************************************************************)
\* gameObjects holds a bullet whose isDestroyed is set
HoldsDestroyed ==
  \E j \in 1..Len(engine.gameObjects) : engine.gameObjects[j].isDestroyed

\* C19: a bullet whose isDestroyed has been set is eventually no longer in
\* gameObjects, so destroyed bullets do not pile up in the scene
C19_DestroyedBulletsAreRemoved == HoldsDestroyed ~> ~HoldsDestroyed

SampleSteps == {j \in 1..Len(log) : log[j].sample # <<>>}

\* C21: the sub-steps with an index divisible by 3, and no others, record
\* the position the element has before the forces are applied and before
\* integrate; so the first entry of points is the origin of the trigger,
\* points is not empty after a resimulation, and a run records at most 67
\* samples
C21_SampleEveryThirdSubStep ==
  hasRun =>
    /\ \A j \in 1..Len(log) :
         /\ (log[j].sample # <<>>) <=> (log[j].i % 3 = 0)
         /\ log[j].sample # <<>> =>
              /\ log[j].sample = <<Pt(log[j].pre.position)>>
              /\ log[j].pre.acceleration = Zero
              /\ traj.points[log[j].at + 1] = Pt(log[j].pre.position)
    /\ traj.points # <<>>
    /\ RanFromTrigger => traj.points[1] = Pt(trig.origin)
    /\ Cardinality(SampleSteps) <= 67

\* a resimulation of a trigger made all 200 sub-steps and recorded 67
\* samples
C21_Witness ==
  /\ RanFromTrigger
  /\ Len(log) = MaxIterations
  /\ Cardinality(SampleSteps) = 67
  /\ traj.points[1] = Pt(trig.origin)

\* C22: a sub-step that ends past the ground line, also when it ends outside
\* [0, width] as well, appends the position it reached as the last point and
\* nothing else, leaves position.x where it is and ends the loop; so points
\* never ends with the null sentinel
C22_GroundBeforeWrap ==
  /\ \A j \in 1..Len(log) :
       log[j].post.position.y > GroundLine(tOp.params) =>
         /\ log[j].kind = "ground"
         /\ log[j].tail = <<Pt(log[j].post.position)>>
         /\ log[j].hit = NoHit
         /\ log[j].after = log[j].post
         /\ j = Len(log)
         /\ traj.points[Len(traj.points)] = Pt(log[j].post.position)
  /\ traj.points # <<>> => traj.points[Len(traj.points)] # NullEntry

\* the last sub-step of a resimulation ended past the ground line and
\* outside [0, width]
C22_Witness ==
  /\ RanFromTrigger
  /\ log[Len(log)].post.position.y > GroundLine(tOp.params)
  /\ \/ log[Len(log)].post.position.x < 0
     \/ log[Len(log)].post.position.x > Dims.x
  /\ Len(log) > 1

(***************************************************************************)
(* Further claims about the Element (checked under SpecElement)            *)
(***************************************************************************)
\* C23: what integrate returns describes the element after the step:
\* position and oldPosition are those of the element, acceleration is
\* position - oldPosition after the step, which is the velocity before the
\* step plus acceleration * delta^2; and calls made on the element later
\* leave the returned vectors as they were
C23_IntegrateReturnsPostStep ==
  /\ eOp.name = "integrate" =>
       /\ eOp.ret.position = e.position
       /\ eOp.ret.oldPosition = e.oldPosition
       /\ eOp.ret.acceleration = VSub(e.position, e.oldPosition)
       /\ eOp.ret.acceleration
            = VAdd(VSub(ePre.position, ePre.oldPosition),
                   VScale(ePre.acceleration, eOp.delta * eOp.delta))
  /\ (eOp.name = "applyForce" /\ eSteps > 0) =>
       /\ eOp.ret.position = eBase.position
       /\ eOp.ret.oldPosition = eBase.oldPosition

\* C24: however the element was constructed, also with one Vec2 given as
\* position and as oldPosition, a step from rest under a force that is not
\* zero moves position by acceleration * delta^2 and leaves the position it
\* had before the step in oldPosition
C24_VerletWhateverTheConstruction ==
  (/\ eOp.name = "integrate"
   /\ ePre.position = ePre.oldPosition
   /\ ePre.acceleration # Zero) =>
    /\ e.position = VAdd(ePre.position,
                         VScale(ePre.acceleration, eOp.delta * eOp.delta))
    /\ e.oldPosition = ePre.position

(***************************************************************************)
(* Claims about rayLineIntersection (checked under SpecRayLine)            *)
(***************************************************************************)
Cross(a, b) == a.x * b.y - a.y * b.x

Dot(a, b) == a.x * b.x + a.y * b.y

\* pd * (p - s) for a point p with the coordinates px and py (numbers) and
\* pd = px.d * py.d
FromTo(s, px, py) ==
  Vec2((Over(px) - s.x * px.d) * py.d, (Over(py) - s.y * py.d) * px.d)

\* C25: intersects is true exactly when ray and segment are not parallel
\* and the solution of origin + t1 * direction = lineStart + t2 * (lineEnd -
\* lineStart) has t1 >= 0 and 0 <= t2 <= 1; then t is t1 and the point is
\* origin + t * direction and lies on the segment; otherwise there is no
\* point and no t
C25_RayLineIntersection ==
  lq.returned =>
    LET d == lq.rayDirection
        v == VSub(lq.lineEnd, lq.lineStart)
        w == VSub(lq.rayOrigin, lq.lineStart)
        den == Cross(d, v)
        valid == /\ den # 0
                 /\ Cross(v, w) * den >= 0
                 /\ Cross(d, w) * den >= 0
                 /\ Cross(d, w) * den <= den * den
        t == lq.out.t
        px == lq.out.point.x
        py == lq.out.point.y
    IN /\ lq.out.intersects <=> valid
       /\ lq.out.intersects =>
            /\ lq.out.point.k = "vec" /\ px.def /\ py.def /\ t.def
            /\ t.d > 0 /\ px.d > 0 /\ py.d > 0
            /\ Over(t) * den = Cross(v, w) * t.d
            /\ Over(px) * t.d = (lq.rayOrigin.x * t.d + d.x * Over(t)) * px.d
            /\ Over(py) * t.d = (lq.rayOrigin.y * t.d + d.y * Over(t)) * py.d
            /\ Cross(v, FromTo(lq.lineStart, px, py)) = 0
            /\ Dot(v, FromTo(lq.lineStart, px, py)) >= 0
            /\ Dot(v, FromTo(lq.lineStart, px, py))
                 <= Dot(v, v) * px.d * py.d
       /\ ~lq.out.intersects =>
            (lq.out.point = UndefinedEntry /\ lq.out.t = NoNumber)

\* a call returned an intersection strictly inside the segment, at a t
\* that is not a whole number
C25_Witness ==
  /\ lq.returned /\ lq.out.intersects
  /\ lq.out.t.n # 0
  /\ lq.out.point # Pt(lq.lineStart)
  /\ lq.out.point # Pt(lq.lineEnd)

(***************************************************************************)
(* Claims about the wrap sites (checked under Spec)                        *)
(***************************************************************************)
\* the origin of the last trigger has 0 <= x <= width
OriginInsideX == trig.set /\ 0 <= trig.origin.x /\ trig.origin.x <= Dims.x

\* t.d * (q - from) for a number q whose denominator divides t.d
Travelled(q, from, t) == ((q.w - from) * q.d + q.n) * (t.d \div q.d)

AtMost(q, hi) == q.def /\ (q.w < hi \/ (q.w = hi /\ q.n = 0))

\* the trigger origin lies inside the playfield of the resimulation
OriginInside ==
  /\ OriginInsideX
  /\ trig.origin.y <= GroundLine(tOp.params)

C28_OneCallbackScheduled ==
  /\ Cardinality(requests) <= 1
  /\ phase = "idle" => (engine.animationFrameId # NoFrame <=> engine.playing)

\* C29: in each tick update() calls update exactly once, in list order, on
\* every object that was in gameObjects when the pass began, the draw pass
\* starts only after all of them; an object added during the pass of a tick
\* receives no update in that tick and one in each following tick
C29_PassVisitsTheObjectsOfItsStart ==
  pass.tick > 0 =>
    /\ Len(pass.visited) <= pass.n
    /\ \A i \in 1..Len(pass.visited) : pass.visited[i] = i
    /\ pass.drawn = pass.tick => Len(pass.visited) = pass.n
    /\ \A j \in 1..Len(engine.gameObjects) :
         pass.count[j] =
           (IF pass.born[j] < pass.tick
            THEN pass.tick - 1 - pass.born[j] ELSE 0)
           + (IF j <= Len(pass.visited) THEN 1 ELSE 0)

\* the draw pass of the third tick ran in a scene with a bullet fired in the
\* first tick, updated twice since, and a bullet fired in the third tick,
\* not updated yet
C29_Witness ==
  /\ pass.tick = 3
  /\ pass.drawn = 3
  /\ \E j \in 1..Len(engine.gameObjects) :
       pass.born[j] = 1 /\ pass.count[j] = 2
  /\ \E j \in 1..Len(engine.gameObjects) :
       pass.born[j] = 3 /\ pass.count[j] = 0

\* the first n sub-steps of the preview neither wrapped nor hit the ground
PreviewFree(n) == \A m \in 1..n : m <= Len(log) /\ log[m].kind = "none"

\* C30: with frames of 1/60 s and unchanged parameters, a bullet
\* constructed with the start position and velocity the preview was
\* triggered with has, after n update calls, the position the preview has
\* after n sub-steps shifted by (-radius, -radius), for every n up to the
\* first ground impact or edge exit of either; at the sub-step of that
\* event the preview's position is the one integrate left
C30_BulletFollowsPreview ==
  (/\ PreviewOfTrigger
   /\ bOp.name = "update"
   /\ ~bOp.pre.isDestroyed
   /\ PreviewFree(bOp.n - 1)
   /\ bOp.n <= Len(log))
  => /\ bullet.physics.position =
          VSub(log[bOp.n].post.position, Vec2(BulletRadius, BulletRadius))
     /\ PreviewFree(bOp.n) =>
          bullet.physics.position =
            VSub(log[bOp.n].after.position,
                 Vec2(BulletRadius, BulletRadius))

\* the bullet, three updates after the shot, is where the preview's third
\* sub-step is, wind blowing, and neither has left the playfield
C30_Witness ==
  /\ PreviewOfTrigger
  /\ bOp.name = "update"
  /\ bOp.n = 3
  /\ ~bullet.isDestroyed
  /\ PreviewFree(3)
  /\ params.wind # Zero
  /\ trig.velocity # Zero
====
